---- MODULE Spec2Model ----
(***************************************************************************)
(* nyprsetuptools: the DockerDeploy command (commands/deploy.py), the      *)
(* retry helper it uses (util/wait.py) and the test collector of           *)
(* commands/test.py, as a state machine.                                   *)
(*                                                                         *)
(* Under Spec one behaviour is one execution of DockerDeploy.run after     *)
(* finalize_options.  The external collaborators (the docker binary, ECR,  *)
(* ECS, CloudWatch Logs) are the environment: every answer they can give   *)
(* is a nondeterministic choice.  Time is counted in milliseconds.         *)
(*                                                                         *)
(* The other specifications look at one part over all of its inputs:       *)
(*   SpecWait      one call of util.wait.wait                              *)
(*   SpecBuild     build(tags) for every list of tags                      *)
(*   SpecTaskDef   update_task_definition for every option set and every   *)
(*                 stored task definition                                  *)
(*   SpecFinalize  finalize_options on every command line, and the run()   *)
(*                 up to the registration that follows it                  *)
(*   SpecMigration the run from update_task_definition on with a           *)
(*                 migration, in EC2 and in Fargate mode;                  *)
(*                 SpecMigrationLive adds that the program and the task    *)
(*                 go on                                                   *)
(*   SpecService   the run from update_task_definition on with the         *)
(*                 service update alone, the system clock being set        *)
(*                 while update_service polls                              *)
(*   SpecGather    commands/test.py: the collection of the test files and  *)
(*                 PyTestParallelCollector.gather on one node              *)
(***************************************************************************)
EXTENDS Integers, Sequences, FiniteSets, TLC

VARIABLES
    \* DockerDeploy options (self.*), fixed by finalize_options except wait
    test, migrate, no_service, wait,
    \* control: the position in run() and the exception that ended it
    pc, raised,
    \* the docker binary: argument lists of the invocations made so far
    docker_calls,
    \* ECS task definition registrations made (register_task_definition)
    registered,
    \* util.wait: the attempt counter of the wait() call in progress
    attempt,
    \* the launched migration task and its log stream (environment)
    lastStatus, exitCode, written, stream_exists,
    \* run_migration locals
    next_token, running, resp_exit, out,
    \* run_migration: the network configuration it fetched (None when it
    \* fetched none), the options dict it built for run_task, and the keyword
    \* arguments of the last run_task call made
    network_config, options, run_task_kwargs,
    \* run_task was called although an earlier call of the run had answered
    \* with a task
    launched_again,
    \* read_logs: the options of the last get_log_events call, the events and
    \* the nextForwardToken of the last answer, and the log fetches that
    \* returned since the last status poll
    log_request, events, nextForwardToken, fetches_since_poll,
    \* update_service locals and the calls it made
    update_service_calls, polls, to_stop, to_start,
    \* run(): the ARN update_task_definition returned; update_service: the
    \* taskDefinition it passed to ecs.update_service, and whether the last
    \* describe_services listed a deployment of another task definition
    \* with a running task
    returned_arn, update_service_arn, other_running,
    \* the steps the system clock can be set by while update_service polls,
    \* in seconds: {0} for a clock that is left alone
    clock_steps,
    \* observation of the run, for stating properties
    wait_option, phases, proc_failed, reported, complete,
    converged_at,
    \* a call of util.wait.wait taken alone: its parameters max_attempts,
    \* exceptions, wait_for_func and delay, what it returned, and what was
    \* seen of it: invocations of func, the last outcome of func, the
    \* time.sleep calls made and the listed exceptions swallowed
    max_attempts, exceptions, wait_for_func, delay, result,
    func_calls, outcome, sleeps, swallowed,
    \* the other DockerDeploy options that finalize_options and
    \* update_task_definition read.  The options that are parsed as numbers
    \* or split are sequences of characters, the others are strings.
    environment, no_strict_environment, tag, ecs_cluster, cluster_override,
    ecr_repository, memory_reservation, memory_reservation_hard, cpu, ports,
    command, fargate, execution_role, task_role,
    \* --ports as it was given, before finalize_options split it
    ports_option,
    \* what run() works on: the repository URI it looked up (None before),
    \* the tags handed to build and push, the environment variables
    \* get_circle_environment_variables resolves, the task definition ECS
    \* holds, and the register_task_definition requests made
    repository_uri, tags, env_vars, stored, register_calls,
    \* PyTestParallelCollector: self.tests['slow'] (a dict from file to
    \* time) and self.tests['fast'] (a set of files); what gather yielded on
    \* this node (None before), and the node_total and node_index it was
    \* called with
    tests_slow, tests_fast, gathered, circle_node_total, circle_node_index

vars == <<test, migrate, no_service, wait, pc, raised, docker_calls,
          registered, attempt, lastStatus, exitCode, written, stream_exists,
          next_token, running, resp_exit, out,
          network_config, options, run_task_kwargs, launched_again,
          log_request, events, nextForwardToken, fetches_since_poll,
          update_service_calls, polls, to_stop, to_start,
          returned_arn, update_service_arn, other_running, clock_steps,
          wait_option, phases, proc_failed, reported, complete,
          converged_at,
          max_attempts, exceptions, wait_for_func, delay, result,
          func_calls, outcome, sleeps, swallowed,
          environment, no_strict_environment, tag, ecs_cluster,
          cluster_override, ecr_repository, memory_reservation,
          memory_reservation_hard, cpu, ports, command, fargate,
          execution_role, task_role, ports_option,
          repository_uri, tags, env_vars, stored, register_calls,
          tests_slow, tests_fast, gathered, circle_node_total,
          circle_node_index>>

optionVars == <<test, migrate, no_service, wait_option,
                environment, no_strict_environment, tag, ecs_cluster,
                cluster_override, ecr_repository, memory_reservation,
                memory_reservation_hard, cpu, ports, command, fargate,
                execution_role, task_role, ports_option>>
inputVars  == <<repository_uri, tags, env_vars, stored>>
testVars   == <<tests_slow, tests_fast, gathered, circle_node_total,
                circle_node_index>>
regVars    == <<registered, register_calls, returned_arn>>
dockerVars == <<docker_calls, proc_failed>>
taskVars   == <<lastStatus, exitCode, written, stream_exists>>
launchVars == <<network_config, options, run_task_kwargs, launched_again>>
logVars    == <<log_request, events, nextForwardToken, fetches_since_poll>>
migVars    == <<next_token, running, resp_exit, out, launchVars, logVars>>
waitVars   == <<max_attempts, exceptions, wait_for_func, delay, result,
                func_calls, outcome, sleeps, swallowed>>
svcVars    == <<update_service_calls, polls, to_stop, to_start, reported,
                complete, converged_at, update_service_arn, other_running,
                clock_steps>>

----------------------------------------------------------------------------
(* Bounds of the model *)

\* the largest --wait value tried, in seconds
MaxWait == 11

\* the largest step backwards of the system clock, in seconds
MaxClockStep == 7

\* the number of test files, the largest time of a 'slow' marker, and the
\* largest number of test nodes
MaxFiles == 3
MaxTime == 2
MaxNodes == 2
\* the most lines the migration task writes to its log stream
MaxLines == 2
\* the most events the log service puts in one page
MaxPage == 1
\* the largest running/desired count a deployment reports
MaxCount == 1
\* the most describe_services polls followed in one run
MaxPolls == 3
\* the largest latency of one describe_services round trip, in seconds
MaxLatency == 1

\* the largest max_attempts tried below the default
MaxTried == 3
\* the largest value func returns (0 is the falsy one)
MaxValue == 2
\* the most tags handed to build()
MaxTags == 3

(* Program constants *)

\* wait(): max_attempts=10
MaxAttempts == 10
\* wait(): delay=5 (seconds), here in milliseconds
Delay == 5000
\* wait(): backoff=1.33, here in hundredths
Backoff == 133
\* update_service: time.sleep(5), in milliseconds
PollSleep == 5000

\* Python's None, and a present value v (so that both are of one sort)
None == <<>>
Some(v) == <<v>>
Val(x) == x[1]

Min(a, b) == IF a < b THEN a ELSE b

----------------------------------------------------------------------------
(* run(): image references and the task definition revision *)

full_tag == "repo:tag"
latest_tag == "repo:latest"
task_definition_arn == "arn:new"
\* task definitions of the service's other deployments; the code never
\* looks at their names, so they are numbered in the order of the listing
OtherArns == <<"arn:old-1", "arn:old-2">>

\* what Popen.returncode can be: an exit status, or -N for signal N
ReturnCodes == {-9, 0, 1}

\* docker(): raise IOError if p.returncode > 0
DockerRaises(returncode) == returncode > 0

\* a build() that tags the image with the first tag only
FlagsFirstOnly(ts) == IF ts = <<>> THEN <<>> ELSE <<"-t", Head(ts)>>

\* build(): flags = list(sum(zip(itertools.repeat('-t'), tags), ()))
RECURSIVE Flags(_)
Flags(ts) ==
    IF ts = <<>> THEN <<>>
    ELSE <<"-t", Head(ts)>> \o Flags(Tail(ts))

\* the number of docker push invocations made so far
NumPushes ==
    Cardinality({i \in DOMAIN docker_calls : docker_calls[i][1] = "push"})

\* an exception leaves run(): nothing of run() executes after it
Raise(exc) == pc' = "failed" /\ raised' = exc

\* One docker(*args) call whose process ends with returncode; next is where
\* run() goes on when docker() returns.  proc_failed: some docker process of
\* this run has ended with a status other than 0.
Docker(args, returncode, next) ==
    /\ docker_calls' = Append(docker_calls, args)
    /\ proc_failed' = (proc_failed \/ returncode # 0)
    /\ IF DockerRaises(returncode)
       THEN Raise("IOError")
       ELSE pc' = next /\ raised' = raised

----------------------------------------------------------------------------
(* Option strings: int() and str.split on sequences of characters *)

Digits == <<"0", "1", "2", "3", "4", "5", "6", "7", "8", "9">>
IsDigit(c) == \E i \in DOMAIN Digits : Digits[i] = c
DigitValue(c) == (CHOOSE i \in DOMAIN Digits : Digits[i] = c) - 1

\* int(s) raises ValueError unless s is a numeral (of the characters the
\* model uses only the digits make one)
IsInt(s) == s # <<>> /\ \A i \in DOMAIN s : IsDigit(s[i])

\* int(s) of a numeral
RECURSIVE IntOf(_)
IntOf(s) ==
    IF s = <<>> THEN 0
    ELSE 10 * IntOf(SubSeq(s, 1, Len(s) - 1)) + DigitValue(s[Len(s)])

\* s.split(','): the pieces between the commas, empty pieces included
RECURSIVE Split(_)
Split(s) ==
    IF \A i \in DOMAIN s : s[i] # ","
    THEN <<s>>
    ELSE LET i == CHOOSE k \in DOMAIN s :
                     s[k] = "," /\ \A j \in 1..(k - 1) : s[j] # ","
         IN <<SubSeq(s, 1, i - 1)>> \o Split(SubSeq(s, i + 1, Len(s)))

----------------------------------------------------------------------------
(* ECS task definitions *)

\* a container definition; a key the dict does not hold is None
Container(name, cpu_value, environment_value) ==
    [name |-> Some(name), image |-> Some("repo:old"),
     environment |-> environment_value, memoryReservation |-> None,
     memory |-> None, cpu |-> cpu_value, portMappings |-> None,
     command |-> None]

\* the container definitions a stored task definition can start with
Containers ==
    {Container("app", c, e) : c \in {None, Some(128)},
                              e \in {None, Some(<<[name |-> "A", value |-> "1"]>>)}}

\* a second container of a stored task definition
Sidecar == Container("sidecar", None, None)

\* how many container definitions the stored task definition can hold
ContainerDefCounts == {0, 1, 2}

\* the container definition lists of that many entries, led by first
ContainerDefs(first, n) ==
    IF n = 0 THEN <<>> ELSE IF n = 1 THEN <<first>> ELSE <<first, Sidecar>>

task_name == "repo-demo"

\* a task definition as describe_task_definition returns it and as
\* register_task_definition accepts it
TaskDefinition(defs, role, mode, vols) ==
    [family |-> task_name, containerDefinitions |-> defs,
     taskRoleArn |-> role, networkMode |-> mode, volumes |-> vols,
     executionRoleArn |-> None, requiresCompatibilities |-> None,
     cpu |-> None, memory |-> None]

\* the task definitions ECS can hold for the family
TaskDefinitions ==
    {TaskDefinition(ContainerDefs(c, n), role, mode, vols) :
        c \in Containers, n \in ContainerDefCounts,
        role \in {None, Some("arn:role/task")},
        mode \in {None, Some("bridge")},
        vols \in {None, Some(<<"data">>)}}

\* the plain task definition with n container definitions
PlainTaskDefinition(n) ==
    TaskDefinition(ContainerDefs(Container("app", None, None), n),
                   None, None, None)

\* what get_circle_environment_variables returns: None outside CircleCI,
\* otherwise the dict of the prefixed variables, which can be empty
EnvVars == {None, Some(<<>>), Some(<<<<"URL", "u">>>>)}

\* what one invocation of func did: it returned value, or raised exc
NoOutcome == [kind |-> "none", value |-> 0, exc |-> "none"]

\* no call of wait() is looked at alone: its defaults, nothing seen
WaitNotCalled ==
    /\ max_attempts = MaxAttempts
    /\ exceptions = {}
    /\ wait_for_func = "true"
    /\ delay = Delay
    /\ result = None
    /\ func_calls = 0
    /\ outcome = NoOutcome
    /\ sleeps = 0
    /\ swallowed = 0

\* build() has not begun: no docker invocation yet
NothingBuilt ==
    /\ docker_calls = <<>>
    /\ phases = <<>>
    /\ proc_failed = FALSE

\* nothing registered, launched or updated yet, and no exception
NothingDeployed ==
    /\ raised = "none"
    /\ registered = 0
    /\ register_calls = <<>>
    /\ returned_arn = None
    /\ attempt = 1
    /\ lastStatus = "NONE"
    /\ exitCode = None
    /\ written = 0
    /\ stream_exists = FALSE
    /\ next_token = None
    /\ running = TRUE
    /\ resp_exit = None
    /\ out = <<>>
    /\ network_config = None
    /\ options = None
    /\ run_task_kwargs = None
    /\ launched_again = FALSE
    /\ log_request = None
    /\ events = <<>>
    /\ nextForwardToken = None
    /\ fetches_since_poll = 0
    /\ update_service_calls = 0
    /\ update_service_arn = None
    /\ other_running = FALSE
    /\ polls = 0
    /\ to_stop = None
    /\ to_start = None
    /\ reported = None
    /\ complete = FALSE
    /\ converged_at = 0

\* run() has not begun: nothing called, nothing observed
RunNotStarted == NothingBuilt /\ NothingDeployed

\* nothing sets the system clock during the run
SteadyClock == clock_steps = {0}

\* PyTestParallelCollector.__init__: no file is collected; PyTestDistributed
\* initialize_options: one node, index 0; gather was not called
NothingCollected ==
    /\ tests_slow = {}
    /\ tests_fast = {}
    /\ gathered = None
    /\ circle_node_total = 1
    /\ circle_node_index = 0

\* the options finalize_options leaves for a plain EC2 deployment to demo
PlainOptions ==
    /\ environment = "demo"
    /\ no_strict_environment = FALSE
    /\ tag = "v1.2.3"
    /\ ecs_cluster = "cluster-demo"
    /\ cluster_override = ""
    /\ ecr_repository = "repo"
    /\ memory_reservation = <<>>
    /\ memory_reservation_hard = <<>>
    /\ cpu = <<>>
    /\ ports = <<>>
    /\ ports_option = <<>>
    /\ command = ""
    /\ fargate = FALSE
    /\ execution_role = ""
    /\ task_role = ""

\* run() has looked the repository up and made the two tags
RepositoryDescribed ==
    /\ repository_uri = Some("repo")
    /\ tags = <<full_tag, latest_tag>>

Init ==
    /\ test \in BOOLEAN
    /\ migrate \in BOOLEAN
    /\ no_service \in BOOLEAN
    /\ wait \in {0, MaxWait * 1000}
    /\ wait_option = wait
    /\ PlainOptions
    /\ RepositoryDescribed
    /\ env_vars = None
    /\ stored \in {PlainTaskDefinition(n) : n \in {1, 2}}
    /\ pc = "build"
    /\ RunNotStarted
    /\ WaitNotCalled
    /\ SteadyClock
    /\ NothingCollected

\* build(): self.docker('build', *flags, os.getcwd())
Build ==
    /\ pc = "build"
    /\ phases' = Append(phases, "build")
    /\ \E returncode \in ReturnCodes :
          Docker(<<"build">> \o Flags(tags) \o <<"cwd">>,
                 returncode, IF test THEN "test" ELSE "login")
    /\ UNCHANGED <<testVars, optionVars, inputVars, waitVars,
                   wait, regVars, attempt, taskVars, migVars,
                   svcVars>>

\* build(): if self.test: self.docker('run', *test_flags, test_tag, *self.test)
Test ==
    /\ pc = "test"
    /\ phases' = Append(phases, "test")
    /\ IF tags = <<>>
       THEN Raise("IndexError") /\ UNCHANGED dockerVars
       ELSE \E returncode \in ReturnCodes :
               Docker(<<"run", tags[1], "test">>, returncode, "login")
    /\ UNCHANGED <<testVars, optionVars, inputVars, waitVars,
                   wait, regVars, attempt, taskVars, migVars,
                   svcVars>>

\* push(): get_authorization_token, then self.docker('login', ...)
Login ==
    /\ pc = "login"
    /\ phases' = Append(phases, "push")
    /\ \E returncode \in ReturnCodes :
          Docker(<<"login", "-u", "user", "-p", "password", "registry">>,
                 returncode,
                 IF tags = <<>> THEN "update_task_definition" ELSE "push")
    /\ UNCHANGED <<testVars, optionVars, inputVars, waitVars,
                   wait, regVars, attempt, taskVars, migVars,
                   svcVars>>

\* push(): for tag in tags: self.docker('push', tag)
Push ==
    /\ pc = "push"
    /\ LET t == tags[NumPushes + 1]
           last == NumPushes + 1 = Len(tags)
       IN \E returncode \in ReturnCodes :
             Docker(<<"push", t>>, returncode,
                    IF last THEN "update_task_definition" ELSE "push")
    /\ UNCHANGED <<testVars, optionVars, inputVars, waitVars,
                   wait, regVars, attempt, taskVars, migVars,
                   svcVars, phases>>

----------------------------------------------------------------------------
(* update_task_definition and the rest of run() *)

\* update_task_definition(): if env_vars (None and the empty dict are falsy)
HasEnvVars == env_vars # None /\ Val(env_vars) # <<>>

\* update_task_definition(): [{'name': k, 'value': v} for k, v in
\* env_vars.items()]
EnvironmentOf(items) ==
    [i \in DOMAIN items |-> [name |-> items[i][1], value |-> items[i][2]]]

\* update_task_definition(): some int() of the overlay raises ValueError
OverlayRaises ==
    \/ memory_reservation # <<>> /\ ~IsInt(memory_reservation)
    \/ cpu # <<>> /\ ~IsInt(cpu)
    \/ ports # <<>> /\ \E i \in DOMAIN ports : ~IsInt(ports[i])

\* update_task_definition(): task_def = container_defs[0] with the image
\* and the options that are set laid over it
Overlay(task_def, image) ==
    [task_def EXCEPT
        !.image = Some(image),
        !.environment =
            IF HasEnvVars THEN Some(EnvironmentOf(Val(env_vars))) ELSE @,
        !.memoryReservation =
            IF memory_reservation # <<>>
            THEN Some(IntOf(memory_reservation)) ELSE @,
        !.memory =
            IF memory_reservation = <<>> /\ memory_reservation_hard # <<>>
            THEN Some(memory_reservation_hard) ELSE @,
        !.cpu = IF cpu # <<>> THEN Some(IntOf(cpu)) ELSE @,
        !.portMappings =
            IF ports # <<>>
            THEN Some([i \in DOMAIN ports |->
                          [containerPort |-> IntOf(ports[i])]])
            ELSE @,
        !.command = IF command # "" THEN Some(command) ELSE @]

\* iam.get_role(RoleName=...)['Role']['Arn']
RoleArn(role_name) == "arn:role/" \o role_name

\* update_task_definition(): the register_task_definition request:
\* containerDefinitions=[task_def], family=task_name and, with fargate,
\* additional_args; a keyword that is not passed is None
Request(task_def) ==
    [family |-> task_name,
     containerDefinitions |-> <<task_def>>,
     volumes |-> None,
     networkMode |-> IF fargate THEN Some("awsvpc") ELSE None,
     requiresCompatibilities |->
         IF fargate THEN Some(<<"EC2", "FARGATE">>) ELSE None,
     executionRoleArn |->
         IF fargate THEN Some(RoleArn(execution_role)) ELSE None,
     taskRoleArn |->
         IF fargate
         THEN Some(IF task_role # "" THEN RoleArn(task_role) ELSE "")
         ELSE None,
     cpu |-> IF fargate THEN Some(cpu) ELSE None,
     memory |-> IF fargate THEN Some(memory_reservation) ELSE None]

\* an update_task_definition() that takes any number of container definitions
RejectedNever(container_defs) == FALSE

\* update_task_definition(): if len(container_defs) > 1: raise
\* NotImplementedError
Rejected(container_defs) == Len(container_defs) > 1

\* what register_task_definition answers for the revision it created
Registered(arn) == [taskDefinition |-> [taskDefinitionArn |-> arn]]

\* an update_task_definition that returns the ARN of an earlier revision
ArnOfEarlier(resp) == OtherArns[1]

\* update_task_definition(): task_definition_arn =
\* resp['taskDefinition']['taskDefinitionArn'], which it returns
ArnOf(resp) == resp.taskDefinition.taskDefinitionArn

\* update_task_definition(): describe_task_definition, the check of the
\* number of container definitions, the overlay, register_task_definition
UpdateTaskDefinition ==
    /\ pc = "update_task_definition"
    /\ phases' = Append(phases, "register")
    /\ LET container_defs == stored.containerDefinitions
       IN IF Rejected(container_defs)
          THEN Raise("NotImplementedError") /\ UNCHANGED regVars
          ELSE IF container_defs = <<>>
          THEN Raise("IndexError") /\ UNCHANGED regVars
          ELSE IF OverlayRaises
          THEN Raise("ValueError") /\ UNCHANGED regVars
          ELSE /\ registered' = registered + 1
               /\ register_calls' =
                     Append(register_calls,
                            Request(Overlay(container_defs[1], full_tag)))
               /\ returned_arn' = Some(ArnOf(Registered(task_definition_arn)))
               /\ pc' = "cluster_needed"
               /\ UNCHANGED raised
    /\ UNCHANGED <<testVars, optionVars, inputVars, waitVars,
                   wait, dockerVars, attempt, taskVars, migVars, svcVars>>

\* run(): if self.migrate or (self.no_service is False)
ClusterNeeded == migrate \/ (no_service = FALSE)

\* a run() that updates the service whatever no_service says
ServiceWantedAlways == TRUE

\* run(): if self.no_service is False
ServiceWanted == no_service = FALSE

\* run(): where control goes once the migration step is over
AfterMigration == IF ServiceWanted THEN "update_service" ELSE "done"

\* run(): the test that guards get_ecs_cluster, and get_ecs_cluster itself,
\* which raises ValueError when no cluster ARN starts with self.ecs_cluster
GetEcsCluster ==
    /\ pc = "cluster_needed"
    /\ IF ~ClusterNeeded
       THEN pc' = "done" /\ raised' = raised
       ELSE \E found \in BOOLEAN :
               IF found
               THEN /\ pc' = IF migrate THEN "run_migration"
                                 ELSE AfterMigration
                    /\ raised' = raised
               ELSE Raise("ValueError")
    /\ UNCHANGED <<testVars, optionVars, inputVars, waitVars,
                   wait, dockerVars, regVars, attempt, taskVars,
                   migVars, svcVars, phases>>

----------------------------------------------------------------------------
(* util.wait.wait and run_migration *)

\* a wait() that tries once more than max_attempts
RetriesOnceMore(a, max) == a <= max + 1

\* wait(): if attempt <= max_attempts: call func once more; otherwise fall
\* off the end of the function, which returns None
Retries(a, max) == a <= max

\* the same test in a call that leaves max_attempts at its default
WaitCalls(a) == Retries(a, MaxAttempts)

\* wait(): delay = backoff * delay
NextDelay(d) == (Backoff * d) \div 100

\* read_logs(): if next_token (a token of the service is a non-empty string)
Truthy(token) == token # None

\* a read_logs that asks for the head of the stream whatever token it has
LogRequestFromHead(token) == [startFromHead |-> TRUE, nextToken |-> None]

\* read_logs(): the options of get_log_events: startFromHead True, and
\* with a token startFromHead False and nextToken
LogRequest(token) ==
    IF Truthy(token) THEN [startFromHead |-> FALSE, nextToken |-> token]
    ELSE [startFromHead |-> TRUE, nextToken |-> None]

\* read_logs(): where the fetch starts: the head of the stream
\* (startFromHead) without a token, the token's position with one
StartOf(token) ==
    LET request == LogRequest(token)
    IN IF request.startFromHead THEN 0 ELSE Val(request.nextToken)

\* a read_logs that prints nothing
NoMessages(evts) == <<>>

\* read_logs(): for event in resp['events']: print(event['message'])
Messages(evts) == evts

\* a loop that polls the status again whatever the last poll said
AfterFetchPollsAgain(still_running) == "describe_tasks"

\* run_migration(): while running: after a log fetch the loop goes on
\* with a status poll, or ends
AfterFetch(still_running) ==
    IF still_running THEN "describe_tasks" ELSE "exit_code"

\* a loop that takes every status for a running one
StillRunningAlways(status) == TRUE

\* run_migration(): running = resp['tasks'][0]['lastStatus'] != 'STOPPED'
StillRunning(status) == status # "STOPPED"

\* the network configurations a service can have
NetworkConfigs == {"subnets-a", "subnets-b"}

\* a run_migration that launches on EC2 whatever self.fargate says
LaunchTypeEC2(fg) == "EC2"

\* run_migration(): 'launchType': 'EC2', and 'FARGATE' if self.fargate
LaunchType(fg) == IF fg THEN "FARGATE" ELSE "EC2"

\* run_migration(): the options dict of run_task; networkConfiguration is
\* a key of it only if self.fargate
Options(arn, fg, cfg) ==
    [taskDefinition |-> arn, launchType |-> LaunchType(fg),
     networkConfiguration |-> IF fg THEN cfg ELSE None, count |-> 1]

\* the lines a page of k events holds when it starts after position p
Page(p, k) == [i \in 1..k |-> p + i]

\* how many events a page can hold when n events are there to fetch
PageSizes(n) == IF n = 0 THEN {0} ELSE 1..Min(n, MaxPage)

\* exit codes a container that ran can end with
ExitCodes == {0, 1}

\* run_migration(): containers[0].get('exitCode', 1)
ExitCodeOf(resp) == IF resp = None THEN 1 ELSE Val(resp)

\* run_migration(): if exit_code > 0: raise SystemExit
MigrationFailed(exit_code) == exit_code > 0

\* what ecs.run_task answers: no task (the reason is under 'failures'), or
\* the task it launched
RunTaskResponses == {[tasks |-> <<>>], [tasks |-> <<"task">>]}

\* a wait() that takes no answer of run_task for a launch
HasTasksNever(resp) == FALSE

\* run_migration(): wait_for_func=lambda x: x['tasks'], the truth value of
\* the list
HasTasks(resp) == resp.tasks # <<>>

\* run_migration(): the options dict; if self.fargate, describe_services
\* for the service named as the task, ['services'][0] of the answer (an
\* IndexError when there is no such service) and its networkConfiguration
MigrationOptions ==
    /\ pc = "run_migration"
    /\ phases' = Append(phases, "migration")
    /\ IF fargate
       THEN \E found \in BOOLEAN :
               IF found
               THEN \E cfg \in NetworkConfigs :
                       /\ network_config' = Some(cfg)
                       /\ options' = Some(Options(Val(returned_arn), fargate,
                                                  Some(cfg)))
                       /\ pc' = "run_task"
                       /\ UNCHANGED raised
               ELSE /\ Raise("IndexError")
                    /\ UNCHANGED <<network_config, options>>
       ELSE /\ options' = Some(Options(Val(returned_arn), fargate, None))
            /\ pc' = "run_task"
            /\ UNCHANGED <<network_config, raised>>
    /\ UNCHANGED <<testVars, optionVars, inputVars, waitVars,
                   wait, dockerVars, regVars, attempt, taskVars,
                   next_token, running, resp_exit, out, run_task_kwargs,
                   launched_again, logVars, svcVars>>

\* run_migration(): migration_task = wait(self.ecs.run_task, kwargs=options,
\* wait_for_func=lambda x: x['tasks']), one attempt per step; then
\* migration_task['tasks'][0], which is a TypeError on None
RunTask ==
    /\ pc = "run_task"
    /\ IF WaitCalls(attempt)
       THEN /\ run_task_kwargs' = options
            /\ launched_again' = (launched_again \/ lastStatus # "NONE")
            /\ \E resp \in RunTaskResponses :
                  /\ lastStatus' =
                        IF resp.tasks # <<>> THEN "PENDING" ELSE lastStatus
                  /\ IF HasTasks(resp)
                     THEN attempt' = 1 /\ pc' = "read_logs"
                     ELSE attempt' = attempt + 1 /\ pc' = pc
            /\ UNCHANGED raised
       ELSE /\ Raise("TypeError")
            /\ UNCHANGED <<lastStatus, attempt, run_task_kwargs,
                           launched_again>>
    /\ UNCHANGED <<testVars, optionVars, inputVars, waitVars,
                   wait, dockerVars, regVars, exitCode, written,
                   stream_exists, next_token, running, resp_exit, out,
                   network_config, options, logVars, svcVars, phases>>

\* read_logs(next_token): resp = wait(self.cwl.get_log_events, kwargs=options,
\* exceptions=[self.ClientError]), one attempt per step; the events are
\* printed and resp['nextForwardToken'] becomes next_token.  A stream that
\* does not exist makes get_log_events raise ClientError.  The page holds
\* the events after the start, at least one when there is one and at most
\* the service's page size.
\* After the call: time.sleep(1) and the test of `while running`.
ReadLogs ==
    /\ pc = "read_logs"
    /\ IF WaitCalls(attempt)
       THEN /\ log_request' = Some(LogRequest(next_token))
            /\ IF ~stream_exists
               THEN /\ attempt' = attempt + 1
                    /\ UNCHANGED <<pc, raised, next_token, out, events,
                                   nextForwardToken, fetches_since_poll>>
               ELSE \E k \in PageSizes(written - StartOf(next_token)) :
                       /\ events' = Page(StartOf(next_token), k)
                       /\ nextForwardToken' = Some(StartOf(next_token) + k)
                       /\ out' = out \o Messages(events')
                       /\ next_token' = nextForwardToken'
                       /\ fetches_since_poll' = fetches_since_poll + 1
                       /\ attempt' = 1
                       /\ pc' = AfterFetch(running)
                       /\ UNCHANGED raised
       ELSE /\ Raise("TypeError")
            /\ UNCHANGED <<attempt, next_token, out, logVars>>
    /\ UNCHANGED <<testVars, optionVars, inputVars, waitVars,
                   wait, dockerVars, regVars, taskVars,
                   running, resp_exit, launchVars, svcVars, phases>>

\* run_migration(): resp = wait(self.ecs.describe_tasks, ...,
\* wait_for_func=lambda x: x['tasks']), one attempt per step;
\* running = resp['tasks'][0]['lastStatus'] != 'STOPPED'
DescribeTasks ==
    /\ pc = "describe_tasks"
    /\ IF WaitCalls(attempt)
       THEN /\ \E listed \in BOOLEAN :
                  IF listed
                  THEN /\ running' = StillRunning(lastStatus)
                       /\ resp_exit' = exitCode
                       /\ fetches_since_poll' = 0
                       /\ attempt' = 1
                       /\ pc' = "read_logs"
                  ELSE /\ attempt' = attempt + 1
                       /\ UNCHANGED <<running, resp_exit, pc,
                                      fetches_since_poll>>
            /\ UNCHANGED raised
       ELSE /\ Raise("TypeError")
            /\ UNCHANGED <<attempt, running, resp_exit, fetches_since_poll>>
    /\ UNCHANGED <<testVars, optionVars, inputVars, waitVars,
                   wait, dockerVars, regVars, taskVars,
                   next_token, out, launchVars, log_request, events,
                   nextForwardToken, svcVars, phases>>

\* a run_migration that takes the registered revision back when the
\* migration command has failed
ExitCodeRollsBack ==
    /\ pc = "exit_code"
    /\ IF MigrationFailed(ExitCodeOf(resp_exit))
       THEN Raise("SystemExit") /\ registered' = registered - 1
       ELSE pc' = AfterMigration /\ UNCHANGED <<raised, registered>>
    /\ UNCHANGED <<testVars, optionVars, inputVars, waitVars,
                   wait, dockerVars, register_calls, returned_arn, attempt,
                   taskVars, migVars, svcVars, phases>>

\* run_migration(): the exit code of the stopped task decides
ExitCode ==
    /\ pc = "exit_code"
    /\ IF MigrationFailed(ExitCodeOf(resp_exit))
       THEN Raise("SystemExit")
       ELSE pc' = AfterMigration /\ UNCHANGED raised
    /\ UNCHANGED <<testVars, optionVars, inputVars, waitVars,
                   wait, dockerVars, regVars, attempt, taskVars,
                   migVars, svcVars, phases>>

(* The migration task, run by the cluster while run_migration polls it *)

InMigration == pc \in {"read_logs", "describe_tasks", "exit_code"}

\* the container starts: its log stream is created
TaskStarts ==
    /\ InMigration /\ lastStatus = "PENDING"
    /\ lastStatus' = "RUNNING"
    /\ stream_exists' = TRUE
    /\ UNCHANGED <<testVars, optionVars, inputVars, waitVars,
                   wait, pc, raised, dockerVars, regVars,
                   attempt, exitCode, written, migVars, svcVars, phases>>

\* the running command writes its next line
TaskWrites ==
    /\ InMigration /\ lastStatus = "RUNNING"
    /\ written < MaxLines
    /\ written' = written + 1
    /\ UNCHANGED <<testVars, optionVars, inputVars, waitVars,
                   wait, pc, raised, dockerVars, regVars,
                   attempt, lastStatus, exitCode, stream_exists, migVars,
                   svcVars, phases>>

\* the command exits: the container stops with its exit code
TaskStops ==
    /\ InMigration /\ lastStatus = "RUNNING"
    /\ lastStatus' = "STOPPED"
    /\ \E code \in ExitCodes : exitCode' = Some(code)
    /\ UNCHANGED <<testVars, optionVars, inputVars, waitVars,
                   wait, pc, raised, dockerVars, regVars,
                   attempt, written, stream_exists, migVars, svcVars,
                   phases>>

\* the container never starts (the image cannot be pulled, the command is
\* not found): the task stops without an exit code, with or without a stream
TaskFailsToStart ==
    /\ InMigration /\ lastStatus = "PENDING"
    /\ lastStatus' = "STOPPED"
    /\ exitCode' = None
    /\ \E created \in BOOLEAN : stream_exists' = created
    /\ UNCHANGED <<testVars, optionVars, inputVars, waitVars,
                   wait, pc, raised, dockerVars, regVars,
                   attempt, written, migVars, svcVars, phases>>

----------------------------------------------------------------------------
(* update_service *)

\* wait(): the time slept by a call that starts at attempt a with this delay
\* and whose every attempt fails: time.sleep(delay), delay = backoff * delay,
\* and the recursive call, until attempt > max_attempts
RECURSIVE Slept(_, _)
Slept(a, d) ==
    IF WaitCalls(a) THEN d + Slept(a + 1, NextDelay(d))
    ELSE 0

\* a dict as the sequence of its items in insertion order; d[key] = value
\* keeps the place of a key already there
Put(d, key, value) ==
    IF \E i \in DOMAIN d : d[i].key = key
    THEN [i \in DOMAIN d |->
             IF d[i].key = key THEN [key |-> key, value |-> value] ELSE d[i]]
    ELSE Append(d, [key |-> key, value |-> value])

\* update_service(): {d['taskDefinition']: d for d in deployments[:n]}
RECURSIVE Deployments(_, _)
Deployments(listed, n) ==
    IF n = 0 THEN <<>>
    ELSE Put(Deployments(listed, n - 1), listed[n].taskDefinition, listed[n])

Has(d, key) == \E i \in DOMAIN d : d[i].key = key
Get(d, key) == (CHOOSE e \in {d[i] : i \in DOMAIN d} : e.key = key).value
Without(d, key) == SelectSeq(d, LAMBDA e : e.key # key)

\* update_service(): new = wait(deployments.pop, args=[task_definition_arn],
\* exceptions=[KeyError]): the deployment, or None after max_attempts
\* KeyErrors (the dict does not change between the attempts)
NewOf(deployments) ==
    IF Has(deployments, task_definition_arn)
    THEN Some(Get(deployments, task_definition_arn))
    ELSE None

\* update_service(): old = deployments.pop(list(deployments.keys())[0]) if
\* deployments else {'runningCount': 0}, after new was popped
OldOf(deployments) ==
    LET rest == Without(deployments, task_definition_arn)
    IN IF rest # <<>> THEN rest[1].value ELSE [runningCount |-> 0]

\* update_service(): the condition of the while loop
LoopCondition ==
    IF to_stop = None /\ to_start = None THEN TRUE
    ELSE wait > 0 /\ Val(to_stop) + Val(to_start) > 0

\* update_service(): if to_stop + to_start == 0: 'Deployment complete.'
Converged(stop, start) == stop + start = 0

\* update_service(): what the 'Waiting for {} old tasks to stop and {} new
\* tasks to start' line reports
Report(stop, start) == <<stop, start>>

\* the task definitions a deployment of the service can refer to
Arns == {task_definition_arn} \cup {OtherArns[k] : k \in DOMAIN OtherArns}

\* a deployment as describe_services lists it; of another deployment than
\* the new one only the running count is read
DeploymentsOf(arn) ==
    [taskDefinition : {arn}, runningCount : 0..MaxCount,
     desiredCount : IF arn = task_definition_arn THEN 0..MaxCount ELSE {0}]

\* resp['services'][0]['deployments']: what describe_services can answer,
\* the deployments in any order, each of another task definition
Responses ==
    {l \in UNION {[1..n -> UNION {DeploymentsOf(arn) : arn \in Arns}] :
                     n \in 0..Cardinality(Arns)} :
        /\ \A i, j \in DOMAIN l :
              i # j => l[i].taskDefinition # l[j].taskDefinition
        /\ \A i \in DOMAIN l, k \in DOMAIN OtherArns :
              l[i].taskDefinition = OtherArns[k] /\ k > 1
              => \E j \in 1..(i - 1) : l[j].taskDefinition = OtherArns[k - 1]}

\* some deployment of the answer, other than the one of the new task
\* definition, has a running task
OthersRun(listed) ==
    \E i \in DOMAIN listed :
       /\ listed[i].taskDefinition # task_definition_arn
       /\ listed[i].runningCount > 0

\* what the system clock can be stepped by while an iteration runs, in
\* seconds: not at all, or back by MaxClockStep
ClockSteps == {0, -MaxClockStep}

\* update_service(): time.time() - start_time, the difference of two
\* readings of the wall clock: the time that passed, and the step the
\* clock was set by in between
Elapsed(passed, step) == passed + step * 1000

\* update_service(): print, then self.ecs.update_service(...)
UpdateService ==
    /\ pc = "update_service"
    /\ phases' = Append(phases, "update-service")
    /\ update_service_calls' = update_service_calls + 1
    /\ update_service_arn' = returned_arn
    /\ to_stop' = None
    /\ to_start' = None
    /\ pc' = "poll"
    /\ UNCHANGED <<testVars, optionVars, inputVars, waitVars,
                   wait, raised, dockerVars, regVars, attempt,
                   taskVars, migVars, polls, reported, complete, converged_at,
                   other_running, clock_steps>>

\* update_service(): one iteration of the while loop: describe_services, the
\* lookup of the new deployment, the counts, the sleep and the budget
Poll ==
    /\ pc = "poll"
    /\ LoopCondition
    /\ polls < MaxPolls
    /\ polls' = polls + 1
    /\ phases' = IF polls = 0 THEN Append(phases, "convergence") ELSE phases
    /\ \E listed \in Responses, latency \in {0, MaxLatency},
          step \in clock_steps :
          LET deployments == Deployments(listed, Len(listed))
              new == NewOf(deployments)
              old == OldOf(deployments)
              stop == old.runningCount
              start == Val(new).desiredCount - Val(new).runningCount
          IN IF new = None
             THEN /\ wait' = wait - Elapsed(latency * 1000 + Slept(1, Delay)
                                            + PollSleep, step)
                  /\ pc' = "poll"
                  /\ UNCHANGED <<to_stop, to_start, reported, complete,
                                 converged_at, other_running>>
             ELSE /\ to_stop' = Some(stop)
                  /\ to_start' = Some(start)
                  /\ reported' = Report(stop, start)
                  /\ other_running' = OthersRun(listed)
                  /\ wait' = wait - Elapsed(latency * 1000 + PollSleep, step)
                  /\ converged_at' =
                        IF converged_at = 0 /\ stop = 0 /\ start = 0
                        THEN polls + 1 ELSE converged_at
                  /\ IF Converged(stop, start)
                     THEN complete' = TRUE /\ pc' = "done"
                     ELSE complete' = complete /\ pc' = "poll"
    /\ UNCHANGED <<testVars, optionVars, inputVars, waitVars,
                   raised, dockerVars, regVars, attempt,
                   taskVars, migVars, update_service_calls,
                   update_service_arn, clock_steps>>

\* an update_service that raises when its loop ends without convergence
LoopExitRaises ==
    /\ pc = "poll"
    /\ ~LoopCondition
    /\ IF complete THEN pc' = "done" /\ raised' = raised
       ELSE Raise("TimeoutError")
    /\ UNCHANGED <<testVars, optionVars, inputVars, waitVars,
                   wait, dockerVars, regVars, attempt,
                   taskVars, migVars, svcVars, phases>>

\* update_service(): the while condition is false: the method returns
\* without an exception, and so does run()
LoopExit ==
    /\ pc = "poll"
    /\ ~LoopCondition
    /\ pc' = "done"
    /\ UNCHANGED <<testVars, optionVars, inputVars, waitVars,
                   wait, raised, dockerVars, regVars, attempt,
                   taskVars, migVars, svcVars, phases>>

----------------------------------------------------------------------------

Next ==
    \/ Build \/ Test \/ Login \/ Push
    \/ UpdateTaskDefinition \/ GetEcsCluster
    \/ MigrationOptions
    \/ RunTask \/ ReadLogs \/ DescribeTasks \/ ExitCode
    \/ TaskStarts \/ TaskWrites \/ TaskStops \/ TaskFailsToStart
    \/ UpdateService \/ Poll \/ LoopExit

Spec == Init /\ [][Next]_vars

----------------------------------------------------------------------------
(* build(tags), taken alone *)

TagNames == {"repo:v1.2.3", "repo:latest", "repo:demo"}

\* the tag lists of at most MaxTags tags
TagLists == UNION {[1..n -> TagNames] : n \in 0..MaxTags}

InitBuild ==
    /\ test \in BOOLEAN
    /\ migrate = FALSE
    /\ no_service = FALSE
    /\ wait = 0
    /\ wait_option = 0
    /\ PlainOptions
    /\ repository_uri = Some("repo")
    /\ tags \in TagLists
    /\ env_vars = None
    /\ stored = PlainTaskDefinition(1)
    /\ pc = "build"
    /\ RunNotStarted
    /\ WaitNotCalled
    /\ SteadyClock
    /\ NothingCollected

NextBuild == Build \/ Test

SpecBuild == InitBuild /\ [][NextBuild]_vars

----------------------------------------------------------------------------
(* update_task_definition, taken alone after a build and a push *)

\* option values that the overlay parses as numbers
Numbers == {<<>>, <<"5", "1", "2">>, <<"x">>}

\* --ports values as given on the command line
PortsOptions == {<<>>, <<"8", "0", ",", "4", "4", "3">>, <<"8", "0", ",">>}

\* what finalize_options lets through: not both memory options, and with
\* fargate an execution role, a memory reservation and a cpu value
Finalized ==
    /\ ~(memory_reservation # <<>> /\ memory_reservation_hard # <<>>)
    /\ fargate =>
          execution_role # "" /\ memory_reservation # <<>> /\ cpu # <<>>

\* build() and push() have gone through for the two tags of run()
BuiltAndPushed ==
    /\ docker_calls =
          << <<"build">> \o Flags(tags) \o <<"cwd">>,
             <<"login", "-u", "user", "-p", "password", "registry">>,
             <<"push", full_tag>>, <<"push", latest_tag>> >>
    /\ phases = <<"build", "push">>
    /\ proc_failed = FALSE

InitTaskDef ==
    /\ test = FALSE
    /\ migrate = FALSE
    /\ no_service = TRUE
    /\ wait = 0
    /\ wait_option = 0
    /\ environment = "demo"
    /\ no_strict_environment = FALSE
    /\ tag = "v1.2.3"
    /\ ecs_cluster = "cluster-demo"
    /\ cluster_override = ""
    /\ ecr_repository = "repo"
    /\ memory_reservation \in Numbers
    /\ memory_reservation_hard \in {<<>>, <<"9">>}
    /\ cpu \in Numbers
    /\ ports_option \in PortsOptions
    /\ ports = IF ports_option = <<>> THEN <<>> ELSE Split(ports_option)
    /\ command \in {"", "migrate"}
    /\ fargate \in BOOLEAN
    /\ execution_role \in {"", "exec"}
    /\ task_role \in {"", "task"}
    /\ Finalized
    /\ RepositoryDescribed
    /\ env_vars \in EnvVars
    /\ stored \in TaskDefinitions
    /\ pc = "update_task_definition"
    /\ BuiltAndPushed
    /\ NothingDeployed
    /\ WaitNotCalled
    /\ SteadyClock
    /\ NothingCollected

NextTaskDef == UpdateTaskDefinition \/ GetEcsCluster

SpecTaskDef == InitTaskDef /\ [][NextTaskDef]_vars

----------------------------------------------------------------------------
(* finalize_options, and the run() that follows it *)

ENVIRONMENTS == {"demo", "prod"}

\* tag_pattern.match(self.tag), for the tags the model gives
TagMatches(t) == t \in {"v1.2.3", "demo"}

\* a finalize_options that lets both memory options through
BothMemoryAllowed == FALSE

\* finalize_options(): self.memory_reservation and
\* self.memory_reservation_hard
BothMemory == memory_reservation # <<>> /\ memory_reservation_hard # <<>>

\* a finalize_options that asks nothing more of --fargate
FargateUnchecked == FALSE

\* finalize_options(): self.fargate and not (self.execution_role and
\* self.memory_reservation and self.cpu)
FargateIncomplete ==
    fargate /\ ~(execution_role # "" /\ memory_reservation # <<>> /\ cpu # <<>>)

\* finalize_options(): the number of the first check that raises
\* ValueError, in the order of the code; 0 when none does
FinalizeError ==
    IF environment = "" THEN 1
    ELSE IF environment \notin ENVIRONMENTS /\ ~no_strict_environment THEN 2
    ELSE IF ~no_strict_environment /\ ~TagMatches(tag) THEN 3
    ELSE IF ecs_cluster = "" /\ cluster_override = "" THEN 4
    ELSE IF ecr_repository = "" THEN 5
    ELSE IF BothMemory THEN 6
    ELSE IF FargateIncomplete THEN 7
    ELSE IF ~IsInt(wait) THEN 8
    ELSE 0

\* finalize_options(): the value of self.ecs_cluster after the cluster check
ClusterOf ==
    IF ecs_cluster # "" THEN ecs_cluster \o "-" \o environment
    ELSE cluster_override

\* the options on the command line; --wait left out is the default 0
InitFinalize ==
    /\ test = FALSE
    /\ migrate = FALSE
    /\ no_service = TRUE
    /\ wait \in {<<"0">>, <<"1", "1">>, <<"x">>}
    /\ wait_option = wait
    /\ environment \in {"", "demo", "qa"}
    /\ no_strict_environment \in BOOLEAN
    /\ tag \in {"v1.2.3", "latest"}
    /\ ecs_cluster \in {"", "cluster"}
    /\ cluster_override \in {"", "other"}
    /\ ecr_repository \in {"", "repo"}
    /\ memory_reservation \in Numbers
    /\ memory_reservation_hard \in {<<>>, <<"9">>}
    /\ cpu \in Numbers
    /\ ports_option \in PortsOptions
    /\ ports = ports_option
    /\ command = ""
    /\ fargate \in BOOLEAN
    /\ execution_role \in {"", "exec"}
    /\ task_role = ""
    /\ repository_uri = None
    /\ tags = <<>>
    /\ env_vars = None
    /\ stored = PlainTaskDefinition(1)
    /\ pc = "finalize_options"
    /\ RunNotStarted
    /\ WaitNotCalled
    /\ SteadyClock
    /\ NothingCollected

\* finalize_options(): the checks in their order, then self.wait =
\* int(self.wait) and self.ports = self.ports.split(',')
FinalizeOptions ==
    /\ pc = "finalize_options"
    /\ LET error == FinalizeError
       IN /\ ecs_cluster' =
                IF error = 0 \/ error > 4 THEN ClusterOf ELSE ecs_cluster
          /\ wait' = IF error = 0 THEN 1000 * IntOf(wait) ELSE wait
          /\ ports' =
                IF error = 0 /\ ports # <<>> THEN Split(ports) ELSE ports
          /\ IF error # 0
             THEN Raise("ValueError")
             ELSE pc' = "run" /\ UNCHANGED raised
    /\ UNCHANGED <<testVars,
                   test, migrate, no_service, wait_option, environment,
                   no_strict_environment, tag, cluster_override,
                   ecr_repository, memory_reservation,
                   memory_reservation_hard, cpu, command, fargate,
                   execution_role, task_role, ports_option, inputVars,
                   waitVars, dockerVars, regVars, attempt, taskVars, migVars,
                   svcVars, phases>>

\* run(): describe_repositories, full_tag and latest_tag, task_name
DescribeRepositories ==
    /\ pc = "run"
    /\ repository_uri' = Some("repo")
    /\ tags' = <<full_tag, latest_tag>>
    /\ pc' = "build"
    /\ UNCHANGED <<testVars, optionVars, env_vars, stored, waitVars, wait,
                   raised,
                   dockerVars, regVars, attempt, taskVars, migVars, svcVars,
                   phases>>

NextFinalize ==
    \/ FinalizeOptions \/ DescribeRepositories
    \/ Build \/ Login \/ Push
    \/ UpdateTaskDefinition \/ GetEcsCluster

SpecFinalize == InitFinalize /\ [][NextFinalize]_vars

----------------------------------------------------------------------------
(* util.wait.wait, one call taken alone *)

\* what func can return, and the kinds of exception it can raise
Values == 0..MaxValue
ExceptionKinds == {"KeyError", "ClientError"}

Outcomes ==
    [kind : {"return"}, value : Values, exc : {"none"}]
    \cup [kind : {"raise"}, value : {0}, exc : ExceptionKinds]

\* wait_for_func(resp): the default lambda x: True, or the truth value of
\* the response as in lambda x: x['tasks']
Predicates == {"true", "truthy"}
Holds(f, v) == IF f = "true" THEN TRUE ELSE v # 0

\* a wait() that catches every exception
SwallowsAll(exc, listed) == TRUE

\* wait(): except tuple(exceptions): pass
Swallows(exc, listed) == exc \in listed

InitWait ==
    /\ test = FALSE
    /\ migrate = FALSE
    /\ no_service = FALSE
    /\ wait = 0
    /\ wait_option = 0
    /\ PlainOptions
    /\ RepositoryDescribed
    /\ env_vars = None
    /\ stored = PlainTaskDefinition(1)
    /\ pc = "wait"
    /\ RunNotStarted
    /\ SteadyClock
    /\ NothingCollected
    /\ max_attempts \in (1..MaxTried) \cup {MaxAttempts}
    /\ exceptions \in SUBSET ExceptionKinds
    /\ wait_for_func \in Predicates
    /\ delay = Delay
    /\ result = None
    /\ func_calls = 0
    /\ outcome = NoOutcome
    /\ sleeps = 0
    /\ swallowed = 0

\* wait(): one pass through the body with attempt <= max_attempts: func is
\* invoked; a response that satisfies wait_for_func is returned; an exception
\* that is not listed leaves wait(); otherwise attempt += 1,
\* time.sleep(delay), delay = backoff * delay and the recursive call
WaitAttempt ==
    /\ pc = "wait"
    /\ Retries(attempt, max_attempts)
    /\ func_calls' = func_calls + 1
    /\ \E o \in Outcomes :
          /\ outcome' = o
          /\ IF o.kind = "return" /\ Holds(wait_for_func, o.value)
             THEN /\ result' = Some(o.value)
                  /\ pc' = "returned"
                  /\ UNCHANGED <<raised, attempt, delay, sleeps, swallowed>>
             ELSE IF o.kind = "raise" /\ ~Swallows(o.exc, exceptions)
             THEN /\ Raise(o.exc)
                  /\ UNCHANGED <<result, attempt, delay, sleeps, swallowed>>
             ELSE /\ attempt' = attempt + 1
                  /\ sleeps' = sleeps + 1
                  /\ delay' = NextDelay(delay)
                  /\ swallowed' = swallowed + (IF o.kind = "raise" THEN 1 ELSE 0)
                  /\ UNCHANGED <<pc, raised, result>>
    /\ UNCHANGED <<testVars, optionVars, inputVars, wait,
                   dockerVars, regVars, taskVars, migVars,
                   svcVars, phases, max_attempts, exceptions, wait_for_func>>

\* a wait() that raises when its attempts are used up
WaitTimesOut ==
    /\ pc = "wait"
    /\ ~Retries(attempt, max_attempts)
    /\ Raise("TimeoutError")
    /\ UNCHANGED <<testVars, optionVars, inputVars, wait,
                   dockerVars, regVars, attempt, taskVars,
                   migVars, svcVars, phases, waitVars>>

\* wait(): attempt > max_attempts: the function body ends without a return
\* statement, so the call returns None
WaitFallsThrough ==
    /\ pc = "wait"
    /\ ~Retries(attempt, max_attempts)
    /\ result' = None
    /\ pc' = "returned"
    /\ UNCHANGED <<testVars, optionVars, inputVars, wait,
                   raised, dockerVars, regVars, attempt,
                   taskVars, migVars, svcVars, phases, max_attempts, exceptions,
                   wait_for_func, delay, func_calls, outcome, sleeps,
                   swallowed>>

NextWait == WaitAttempt \/ WaitFallsThrough

SpecWait == InitWait /\ [][NextWait]_vars


----------------------------------------------------------------------------
(* The deployment after the push, taken alone: the migration, the service *)

\* the options of a run that has come to update_task_definition, in EC2
\* mode or in Fargate mode with what finalize_options demands for it
DeployOptions ==
    /\ test = FALSE
    /\ wait \in {0, MaxWait * 1000}
    /\ wait_option = wait
    /\ environment = "demo"
    /\ no_strict_environment = FALSE
    /\ tag = "v1.2.3"
    /\ ecs_cluster = "cluster-demo"
    /\ cluster_override = ""
    /\ ecr_repository = "repo"
    /\ memory_reservation = IF fargate THEN <<"5", "1", "2">> ELSE <<>>
    /\ memory_reservation_hard = <<>>
    /\ cpu = IF fargate THEN <<"5", "1", "2">> ELSE <<>>
    /\ ports = <<>>
    /\ ports_option = <<>>
    /\ command = ""
    /\ execution_role = IF fargate THEN "exec" ELSE ""
    /\ task_role = ""
    /\ Finalized
    /\ RepositoryDescribed
    /\ env_vars = None
    /\ stored = PlainTaskDefinition(1)
    /\ pc = "update_task_definition"
    /\ BuiltAndPushed
    /\ NothingDeployed
    /\ WaitNotCalled

\* a run with a migration, in both launch modes, for a task with or
\* without a service
InitMigration ==
    /\ migrate = TRUE
    /\ no_service \in BOOLEAN
    /\ fargate \in BOOLEAN
    /\ DeployOptions
    /\ SteadyClock
    /\ NothingCollected

NextMigration ==
    \/ UpdateTaskDefinition \/ GetEcsCluster \/ MigrationOptions
    \/ RunTask \/ ReadLogs \/ DescribeTasks \/ ExitCode
    \/ TaskStarts \/ TaskWrites \/ TaskStops \/ TaskFailsToStart

SpecMigration == InitMigration /\ [][NextMigration]_vars

\* run() is one thread that goes on as long as it can, and the launched
\* task goes on to its end: a pending task starts or fails to start, a
\* running command exits
LiveMigration ==
    /\ WF_vars(UpdateTaskDefinition) /\ WF_vars(GetEcsCluster)
    /\ WF_vars(MigrationOptions) /\ WF_vars(RunTask) /\ WF_vars(ReadLogs)
    /\ WF_vars(DescribeTasks) /\ WF_vars(ExitCode)
    /\ WF_vars(TaskStarts \/ TaskFailsToStart) /\ WF_vars(TaskStops)

SpecMigrationLive == SpecMigration /\ LiveMigration

\* a run without a migration that updates the service, on a machine whose
\* clock can be set while update_service polls
InitService ==
    /\ migrate = FALSE
    /\ no_service = FALSE
    /\ fargate = FALSE
    /\ DeployOptions
    /\ clock_steps = ClockSteps
    /\ NothingCollected

NextService ==
    \/ UpdateTaskDefinition \/ GetEcsCluster
    \/ UpdateService \/ Poll \/ LoopExit

SpecService == InitService /\ [][NextService]_vars

----------------------------------------------------------------------------
(* commands/test.py: PyTestParallelCollector *)

\* A test file is the number of its name in the order of the names; 0 is
\* a file that is no test file (a package's __init__.py).  self.tests['slow']
\* is the set of its items [file, time].

\* pytest_collection_modifyitems(), one item of the loop.  An item is the
\* file of its node id and the time of its 'slow' marker: None without the
\* marker, 0 for a marker without a time.  A file that is no test file is
\* passed over; a marked item sets the time of its file in
\* self.tests['slow'], any other adds its file to self.tests['fast']
Collect ==
    /\ pc = "collect"
    /\ \E item \in [file : 0..MaxFiles,
                     marker : {None} \cup {Some(t) : t \in 0..MaxTime}] :
          IF item.file = 0
          THEN UNCHANGED <<tests_slow, tests_fast>>
          ELSE IF item.marker # None
          THEN /\ tests_slow' =
                     {e \in tests_slow : e.file # item.file}
                     \cup {[file |-> item.file, time |-> Val(item.marker)]}
               /\ UNCHANGED tests_fast
          ELSE /\ tests_fast' = tests_fast \cup {item.file}
               /\ UNCHANGED tests_slow
    /\ UNCHANGED <<optionVars, inputVars, waitVars, wait, pc, raised,
                   dockerVars, regVars, attempt, taskVars, migVars, svcVars,
                   phases, gathered, circle_node_total, circle_node_index>>

\* gather(): sorted(self.tests['slow'].items(), key=itemgetter(1, 0),
\* reverse=True): the longest first, and of equal times the later name first
RECURSIVE SortedSlow(_)
SortedSlow(d) ==
    IF d = {} THEN <<>>
    ELSE LET first == CHOOSE x \in d : \A y \in d :
                         \/ y.time < x.time
                         \/ y.time = x.time /\ y.file <= x.file
         IN <<first>> \o SortedSlow(d \ {first})

\* a gather that leaves the files that are also slow among the fast ones
FastUnfiltered(d, files) == files

\* gather(): test_file for test_file in self.tests['fast'] if test_file not
\* in self.tests['slow']
Fast(d, files) == files \ {e.file : e \in d}

\* gather(): sorted(...) of the fast files
RECURSIVE SortedFast(_)
SortedFast(files) ==
    IF files = {} THEN <<>>
    ELSE LET first == CHOOSE x \in files : \A y \in files : x <= y
         IN <<first>> \o SortedFast(files \ {first})

\* gather(): the loop over sorted_slow from its i-th item on: the item goes
\* to node i % node_total, or to the least busy node if it has a time and
\* that node has less time; min(nodes.values(), key=itemgetter('time')) is
\* the first of the nodes with the least time
RECURSIVE Balanced(_, _, _)
Balanced(nodes, sorted_slow, i) ==
    IF i >= Len(sorted_slow) THEN nodes
    ELSE LET item == sorted_slow[i + 1]
             node == i % Cardinality(DOMAIN nodes)
             min_node ==
                CHOOSE n \in DOMAIN nodes : \A k \in DOMAIN nodes :
                   /\ nodes[n].time <= nodes[k].time
                   /\ nodes[k].time = nodes[n].time => n <= k
             index == IF /\ item.time # 0
                         /\ nodes[min_node].time < nodes[node].time
                      THEN min_node ELSE node
         IN Balanced([nodes EXCEPT
                         ![index] = [time |-> @.time + item.time,
                                     tests |-> Append(@.tests, item.file)]],
                     sorted_slow, i + 1)

\* gather(): the loop over sorted_fast from its i-th file on: the file goes
\* to node i % node_total
RECURSIVE RoundRobin(_, _, _)
RoundRobin(nodes, sorted_fast, i) ==
    IF i >= Len(sorted_fast) THEN nodes
    ELSE LET node == i % Cardinality(DOMAIN nodes)
         IN RoundRobin([nodes EXCEPT
                           ![node].tests = Append(@, sorted_fast[i + 1])],
                       sorted_fast, i + 1)

\* gather(node_total, node_index): the files it yields, in their order
Gather(d, files, node_total, node_index) ==
    LET nodes == [n \in 0..(node_total - 1) |-> [time |-> 0, tests |-> <<>>]]
        slow_done == Balanced(nodes, SortedSlow(d), 0)
    IN RoundRobin(slow_done, SortedFast(Fast(d, files)), 0)[node_index].tests

\* run_tests(): after the collection, collector.gather(self.circle_node_total,
\* self.circle_node_index) on one of the nodes of the build
GatherTests ==
    /\ pc = "collect"
    /\ \E node_total \in 1..MaxNodes, node_index \in 0..(MaxNodes - 1) :
          /\ node_index < node_total
          /\ circle_node_total' = node_total
          /\ circle_node_index' = node_index
          /\ gathered' =
                Some(Gather(tests_slow, tests_fast, node_total, node_index))
    /\ pc' = "gathered"
    /\ UNCHANGED <<optionVars, inputVars, waitVars, wait, raised,
                   dockerVars, regVars, attempt, taskVars, migVars, svcVars,
                   phases, tests_slow, tests_fast>>

InitGather ==
    /\ test = FALSE
    /\ migrate = FALSE
    /\ no_service = FALSE
    /\ wait = 0
    /\ wait_option = 0
    /\ PlainOptions
    /\ RepositoryDescribed
    /\ env_vars = None
    /\ stored = PlainTaskDefinition(1)
    /\ pc = "collect"
    /\ RunNotStarted
    /\ WaitNotCalled
    /\ SteadyClock
    /\ NothingCollected

SpecGather == InitGather /\ [][Collect \/ GatherTests]_vars

----------------------------------------------------------------------------
(* Properties *)

Range(s) == {s[i] : i \in DOMAIN s}
IsPrefix(s, t) == Len(s) <= Len(t) /\ \A i \in DOMAIN s : s[i] = t[i]

\* every docker process of the run ended with status 0
DockerWentWell == ~proc_failed

\* run_migration was entered and control has left it
MigrationEnded ==
    /\ "migration" \in Range(phases)
    /\ pc \notin {"run_task", "read_logs", "describe_tasks", "exit_code"}

\* run_migration returned without an exception
MigrationReturned == MigrationEnded /\ raised = "none"

\* update_service was entered and control has left it
UpdateServiceEnded == update_service_calls > 0 /\ pc \in {"done", "failed"}

\* C1: when the migration task has stopped with an exit code greater than
\* zero, or with no exit code at all, and run_migration is over, it ended
\* with SystemExit and update_service was not called (in a run whose docker
\* steps went well).
C1_Claim ==
    (DockerWentWell /\ MigrationEnded /\ lastStatus = "STOPPED"
        /\ (exitCode = None \/ Val(exitCode) > 0))
    => (raised = "SystemExit" /\ update_service_calls = 0)

\* C2: when run_migration returns (the task wrote lines 1..written and
\* stopped with exit code 0), stdout holds every line, in order, once (in a
\* run whose docker steps went well).
C2_Claim ==
    (DockerWentWell /\ MigrationReturned) => out = [i \in 1..written |-> i]

\* the docker invocations of a run that got through build and push
Built == \E i \in DOMAIN docker_calls : docker_calls[i][1] = "build"
Pushed(t) == \E i \in DOMAIN docker_calls : docker_calls[i] = <<"push", t>>

\* C3: with no_service set, update_service is never called and the poll loop
\* never entered, with or without a migration; a run that completes has
\* built the image, pushed both tags and registered one revision.
C3_NoServiceSkipsOnlyTheService ==
    no_service =>
        /\ update_service_calls = 0
        /\ polls = 0
        /\ Range(phases) \cap {"update-service", "convergence"} = {}
        /\ pc = "done" =>
              Built /\ Pushed(full_tag) /\ Pushed(latest_tag) /\ registered = 1

\* C3 witness: a run with no_service and a migration has completed
C3_Witness ==
    no_service /\ migrate /\ pc = "done" /\ MigrationReturned /\ registered = 1

\* the phases of a run as configured, in their order
ExpectedPhases ==
    SelectSeq(<<"build", "test", "push", "register", "migration",
                "update-service", "convergence">>,
              LAMBDA p : /\ p = "test" => test
                         /\ p = "migration" => migrate
                         /\ p \in {"update-service", "convergence"}
                               => ~no_service)

\* C4: the phases start in the order build, test (if configured), push,
\* register, migration (if configured), update-service, convergence polling,
\* and a phase starts only when no process of an earlier phase has failed
\* and no exception was raised.
C4_Claim ==
    [][phases' # phases =>
          /\ IsPrefix(phases', ExpectedPhases)
          /\ ~proc_failed
          /\ raised = "none"]_vars

\* C5: when a docker process of the build, test, login or push step has
\* ended with a status other than zero, run() is over with an IOError (so
\* the step is not invoked again and no later step runs).
C5_Claim ==
    proc_failed => (pc = "failed" /\ raised = "IOError")

\* C6: the monitor makes exactly N describe_services calls when N is the
\* first poll in which to_stop and to_start are both 0: it never polls after
\* that poll, and with budget left it does not stop before it (in a run
\* whose docker steps went well).
C6_Claim ==
    DockerWentWell =>
        /\ converged_at # 0 => polls = converged_at
        /\ (UpdateServiceEnded /\ wait > 0) => converged_at # 0

\* C7: with a wait budget of 0 the poll loop runs exactly once, whatever
\* describe_services answers (in a run whose docker steps went well).
C7_Claim ==
    (DockerWentWell /\ wait_option = 0) =>
        /\ polls <= 1
        /\ UpdateServiceEnded => polls = 1

\* C8: the poll loop goes round again only while budget is left: once the
\* budget is zero or below (or the deployment complete) it exits (in a run
\* whose docker steps went well).
C8_Claim ==
    (DockerWentWell /\ pc = "poll" /\ polls > 0 /\ LoopCondition)
    => (wait > 0 /\ ~complete)

\* C9: when 'Deployment complete.' is declared, to_stop and to_start of the
\* poll just made are both 0 (in a run whose docker steps went well).
C9_Claim ==
    (DockerWentWell /\ complete) => (to_stop = Some(0) /\ to_start = Some(0))

\* the budget ran out while tasks were left to stop or to start
TimedOut ==
    /\ UpdateServiceEnded
    /\ wait <= 0
    /\ to_stop # None
    /\ Val(to_stop) + Val(to_start) > 0

\* C10: when the wait budget runs out before convergence, update_service has
\* reported the counts it last observed and returns without an exception,
\* and run() completes.
C10_TimeoutIsNotFatal ==
    TimedOut =>
        /\ raised = "none"
        /\ pc = "done"
        /\ ~complete
        /\ reported = <<Val(to_stop), Val(to_start)>>

\* C10 witness: a budget that was positive ran out after several polls
C10_Witness ==
    TimedOut /\ wait_option > 0 /\ polls > 1 /\ pc = "done"

----------------------------------------------------------------------------
(* Properties of util.wait.wait (SpecWait) *)

\* the last invocation of func returned a value that wait_for_func accepts
Satisfied == outcome.kind = "return" /\ Holds(wait_for_func, outcome.value)

\* every invocation of func made so far failed (each was followed by a sleep)
AllFailed == sleeps = func_calls

\* C11: wait() invokes func at most max_attempts times; at the first
\* invocation whose return value satisfies wait_for_func it returns exactly
\* that value, every earlier invocation having failed, and func is not
\* invoked again.
C11_FirstSatisfyingValueIsReturned ==
    /\ func_calls <= max_attempts
    /\ Satisfied =>
          /\ pc = "returned"
          /\ result = Some(outcome.value)
          /\ func_calls = attempt
          /\ sleeps = func_calls - 1

\* C11 witness: the third invocation was the first to satisfy the predicate
C11_Witness ==
    Satisfied /\ pc = "returned" /\ func_calls = 3 /\ result = Some(MaxValue)

\* C12: when each of the max_attempts invocations has failed, wait() raises
\* nothing and returns None, and func has been invoked exactly max_attempts
\* times.
C12_ExhaustionReturnsNone ==
    /\ (AllFailed /\ func_calls = max_attempts) =>
          (raised = "none" /\ pc \in {"wait", "returned"})
    /\ (AllFailed /\ pc = "returned") =>
          (result = None /\ func_calls = max_attempts /\ raised = "none")

\* C12 witness: all 10 default attempts failed, by predicate and by exception
C12_Witness ==
    /\ pc = "returned" /\ AllFailed /\ result = None
    /\ max_attempts = MaxAttempts /\ func_calls = MaxAttempts
    /\ swallowed > 0 /\ swallowed < func_calls

\* C13: a listed exception is swallowed and counts as one failed attempt
\* (attempt advanced, one sleep); an exception of another kind leaves wait()
\* at once: no sleep follows it and func is not invoked again.
C13_OnlyListedExceptionsAreSwallowed ==
    /\ (outcome.kind = "raise" /\ outcome.exc \in exceptions) =>
          /\ raised = "none"
          /\ pc \in {"wait", "returned"}
          /\ attempt = func_calls + 1
          /\ sleeps = func_calls
          /\ swallowed >= 1
    /\ (outcome.kind = "raise" /\ outcome.exc \notin exceptions) =>
          /\ pc = "failed"
          /\ raised = outcome.exc
          /\ attempt = func_calls
          /\ sleeps = func_calls - 1

\* C13 witness: a listed exception was swallowed, then another kind came out
C13_Witness ==
    /\ pc = "failed" /\ raised = "ClientError"
    /\ exceptions = {"KeyError"} /\ swallowed >= 1

----------------------------------------------------------------------------
(* Properties of build (SpecBuild) *)

\* the docker build invocations made so far
BuildCalls == SelectSeq(docker_calls, LAMBDA c : c[1] = "build")

\* C20: build() invokes docker build exactly once, and that invocation
\* carries one '-t' flag per supplied tag, in the order of the tags.
C20_OneBuildCarriesEveryTag ==
    /\ pc = "build" => BuildCalls = <<>>
    /\ pc # "build" =>
          /\ Len(BuildCalls) = 1
          /\ Len(BuildCalls[1]) = 2 * Len(tags) + 2
          /\ \A i \in DOMAIN tags :
                /\ BuildCalls[1][2 * i] = "-t"
                /\ BuildCalls[1][2 * i + 1] = tags[i]

\* C20 witness: a build with three tags, two of them different
C20_Witness ==
    /\ pc # "build" /\ Len(BuildCalls) = 1
    /\ Len(tags) = MaxTags /\ tags[1] # tags[2]

----------------------------------------------------------------------------
(* Properties of update_task_definition *)

\* C17: when a task definition with more than one container definition is
\* rejected, no docker build, no docker push and no register_task_definition
\* call has been made in the run.
C17_Claim ==
    (DockerWentWell /\ raised = "NotImplementedError") =>
        /\ ~Built
        /\ \A i \in DOMAIN docker_calls : docker_calls[i][1] # "push"
        /\ register_calls = <<>>

\* C18: a deployment makes at most one register_task_definition call, each
\* call carries exactly one container definition, and nothing is registered
\* when the fetched task definition has more than one.
C18_OneContainerPerRegistration ==
    /\ Len(register_calls) <= 1
    /\ registered = Len(register_calls)
    /\ \A i \in DOMAIN register_calls :
          Len(register_calls[i].containerDefinitions) = 1
    /\ Len(stored.containerDefinitions) > 1 => register_calls = <<>>

\* C18 witness: a whole deployment, service update included, has registered
C18_Witness ==
    /\ Len(register_calls) = 1 /\ pc = "done"
    /\ migrate /\ update_service_calls = 1 /\ complete

\* no option that update_task_definition lays over the definition is set
NoOverrides ==
    /\ ~HasEnvVars
    /\ memory_reservation = <<>> /\ memory_reservation_hard = <<>>
    /\ cpu = <<>> /\ ports = <<>> /\ command = "" /\ ~fargate

\* C19: with no overrides, the registered definition equals the fetched one
\* in every field of the task and of the container, except the image, which
\* is the new image reference.
C19_Claim ==
    (NoOverrides /\ register_calls # <<>>) =>
        register_calls[1] =
            [stored EXCEPT !.containerDefinitions =
                <<[stored.containerDefinitions[1] EXCEPT
                      !.image = Some(full_tag)]>>]

----------------------------------------------------------------------------
(* Properties of finalize_options (SpecFinalize) *)

\* no call to the registry, to docker or to ECS has been made
NoExternalCall ==
    /\ repository_uri = None
    /\ docker_calls = <<>>
    /\ register_calls = <<>>
    /\ update_service_calls = 0
    /\ lastStatus = "NONE"

\* finalize_options has raised its configuration error before any call
RejectedByFinalize ==
    pc = "failed" /\ raised = "ValueError" /\ NoExternalCall

\* every other check of finalize_options would pass
OtherwiseValid ==
    /\ environment = "demo" /\ tag = "v1.2.3" /\ ecs_cluster # ""
    /\ ecr_repository # "" /\ IsInt(wait_option)

\* C14: with both memory_reservation and memory_reservation_hard set,
\* finalize_options raises a configuration error and no network or
\* external-process call has been made.
C14_BothMemoryOptionsRejected ==
    (memory_reservation # <<>> /\ memory_reservation_hard # <<>>
        /\ pc # "finalize_options") => RejectedByFinalize

\* C14 witness: the two memory options are all that is wrong
C14_Witness ==
    /\ memory_reservation # <<>> /\ memory_reservation_hard # <<>>
    /\ OtherwiseValid /\ ~fargate /\ RejectedByFinalize

\* C15: with fargate set and execution_role, memory_reservation or cpu
\* missing, finalize_options raises a configuration error before any
\* network call.
C15_IncompleteFargateRejected ==
    (fargate /\ (execution_role = "" \/ memory_reservation = <<>> \/ cpu = <<>>)
        /\ pc # "finalize_options") => RejectedByFinalize

\* C15 witness: only the execution role is missing
C15_Witness ==
    /\ fargate /\ execution_role = "" /\ RejectedByFinalize
    /\ memory_reservation = <<"5", "1", "2">> /\ cpu = <<"5", "1", "2">>
    /\ memory_reservation_hard = <<>> /\ OtherwiseValid

\* a numeric option was given a value that is not a number
NotANumber(option) == option # <<>> /\ ~IsInt(option)

\* C16: a non-numeric value of wait, cpu, memory_reservation or ports makes
\* the command fail in finalize_options, before any external call.
C16_Claim ==
    (\/ NotANumber(wait_option)
     \/ NotANumber(cpu)
     \/ NotANumber(memory_reservation)
     \/ ports_option # <<>> /\
           \E i \in DOMAIN Split(ports_option) :
              ~IsInt(Split(ports_option)[i]))
    => NoExternalCall

----------------------------------------------------------------------------
(* run_migration and update_service, second part *)

\* a wait() of run_migration gave up: its attempts are used up and the
\* run is over
WaitExhausted == pc = "failed" /\ ~WaitCalls(attempt)

\* C21: when a retried call of run_migration has used up its attempts (the
\* launch never returned a task, the status lookup never listed the task,
\* the log fetch kept failing), the deployment ends with an explicit
\* timeout and not with the exception raised from using the absent result
C21_Claim ==
    (DockerWentWell /\ WaitExhausted) => raised = "TimeoutError"

\* a get_log_events call of read_logs has returned in this step
FetchReturned == pc = "read_logs" /\ pc' \in {"describe_tasks", "exit_code"}

\* C22: what run_migration has printed is the concatenation, in arrival
\* order, of the batches of events the log service returned to it: each
\* returned batch is appended whole and nothing else is printed, so that
\* the printed lines are the lines of the stream from the first on, none
\* twice and none dropped where one page ends and the next one starts
C22_PrintedIsTheBatchesInOrder ==
    /\ [][IF FetchReturned THEN out' = out \o events' ELSE out' = out]_vars
    /\ [](out = [i \in 1..Len(out) |-> i])

\* two lines were printed from two pages, the second fetched with the token
\* of the first
C22_Witness == out = <<1, 2>> /\ events = <<2>> /\ Len(out) > MaxPage

\* C23: once update_service polls, the remaining wait budget never
\* increases: no iteration of the loop leaves self.wait larger than it
\* found it
C23_Claim == [][pc = "poll" => wait' <= wait]_vars

\* a get_log_events call is made in this step: one that returns, or one
\* that raises ClientError and is tried again
FetchMade == FetchReturned \/ (pc = "read_logs" /\ attempt' = attempt + 1)

\* C24: the first log fetch of run_migration asks for the head of the
\* stream and passes no token; every later fetch passes the forward token
\* that the fetch before it returned, and no other
C24_EachFetchPassesTheLastToken ==
    [][FetchMade =>
          log_request' =
             Some(IF nextForwardToken = None
                  THEN [startFromHead |-> TRUE, nextToken |-> None]
                  ELSE [startFromHead |-> FALSE,
                        nextToken |-> nextForwardToken])]_vars

\* a fetch passed the token of the first page and got the token of the
\* second one
C24_Witness ==
    /\ log_request = Some([startFromHead |-> FALSE, nextToken |-> Some(1)])
    /\ nextForwardToken = Some(2)

\* run_migration is over by its return or by its SystemExit
MigrationFinished == MigrationEnded /\ raised \in {"none", "SystemExit"}

\* C25: in the loop of run_migration a status poll is made only while no
\* poll has reported STOPPED, and one log fetch has returned since the poll
\* before it; a log fetch follows each poll; once a poll has reported
\* STOPPED one more log fetch is made, no poll, and the loop is left
C25_OnePollThenOneFetch ==
    /\ pc = "describe_tasks" => running /\ fetches_since_poll = 1
    /\ pc = "read_logs" => fetches_since_poll = 0
    /\ (pc = "exit_code" \/ MigrationFinished)
       => ~running /\ fetches_since_poll = 1

\* the loop was left after the poll that reported STOPPED and the one
\* fetch that followed it, which still returned a line
C25_Witness ==
    /\ pc = "exit_code" /\ ~running /\ lastStatus = "STOPPED"
    /\ fetches_since_poll = 1 /\ events # <<>>

\* C26: the task definition that run() hands to run_task and the one it
\* hands to ecs.update_service are the ARN that the one
\* register_task_definition call of the run answered, and no other revision
C26_OnlyTheRegisteredRevisionIsUsed ==
    /\ run_task_kwargs # None
       => /\ registered = 1
          /\ Val(run_task_kwargs).taskDefinition = task_definition_arn
    /\ update_service_arn # None
       => /\ registered = 1
          /\ Val(update_service_arn) = task_definition_arn

\* a run that launched the migration and then updated the service
C26_Witness ==
    /\ run_task_kwargs # None /\ lastStatus = "STOPPED"
    /\ update_service_arn # None /\ update_service_calls = 1

\* C27: in Fargate mode every run_task call of run_migration is made with
\* launch type FARGATE and the network configuration that run_migration
\* fetched from the service before the first call; outside Fargate mode no
\* service description is fetched, and every run_task call is made with
\* launch type EC2 and without a network configuration
C27_LaunchFollowsTheMode ==
    /\ ~fargate => network_config = None
    /\ run_task_kwargs # None
       => LET kwargs == Val(run_task_kwargs)
          IN IF fargate
             THEN /\ network_config # None
                  /\ kwargs.launchType = "FARGATE"
                  /\ kwargs.networkConfiguration = network_config
             ELSE /\ kwargs.launchType = "EC2"
                  /\ kwargs.networkConfiguration = None

\* in Fargate mode a first run_task call returned no task and the call is
\* about to be made again
C27_Witness ==
    /\ fargate /\ pc = "run_task" /\ attempt = 2
    /\ run_task_kwargs # None
    /\ Val(run_task_kwargs).networkConfiguration = Some("subnets-b")

\* C28: the wait budget is shared by the blocking phases: when
\* run_migration has returned, the time it took (at least the second its
\* loop sleeps) has been taken off the budget that update_service gets
C28_Claim ==
    (DockerWentWell /\ MigrationReturned /\ wait_option > 0)
    => wait < wait_option

\* C29: once the task is launched run_migration comes to its end, by its
\* return or by SystemExit, when the program and the task go on, unless a
\* status or log call fails until its wait() gives up; and the loop is
\* left only when the task has reached STOPPED, with and without a wait
\* budget
C29_MigrationEndsWhenTheTaskStops ==
    /\ (lastStatus # "NONE") ~> (MigrationFinished \/ WaitExhausted)
    /\ []((pc = "exit_code" \/ MigrationFinished) => lastStatus = "STOPPED")

\* run_migration has returned for a stopped task in a run with a wait
\* budget, which is as it was
C29_Witness ==
    /\ MigrationReturned /\ lastStatus = "STOPPED" /\ ~running
    /\ wait_option > 0 /\ wait = wait_option

\* C30: when update_service declares the deployment complete, no
\* deployment listed in the poll it looked at, other than the one of the
\* new task definition, has a running task, however many deployments the
\* service lists
C30_Claim == (DockerWentWell /\ complete) => ~other_running

\* C31: run_migration takes at most one launched task: run_task is called
\* again only while no call has answered with a task, and never after one
\* has
C31_NoLaunchAfterATask ==
    /\ ~launched_again
    /\ pc = "run_task" => lastStatus = "NONE"

\* a run_task call has answered with the task and the run has gone on to
\* the first log fetch, which is still to be made
C31_Witness ==
    /\ pc = "read_logs" /\ lastStatus = "PENDING" /\ ~launched_again
    /\ run_task_kwargs # None /\ log_request = None

\* run() has ended with an exception after update_task_definition had
\* returned: in the cluster lookup, the migration or the service update
FailedAfterRegistering == pc = "failed" /\ returned_arn # None

\* C32: a deployment that fails after the registration is not rolled back:
\* docker push was run for both tags and was the last docker call made,
\* and the one revision that was registered stays registered
C32_FailureLeavesPushAndRevision ==
    FailedAfterRegistering =>
        /\ Pushed(full_tag) /\ Pushed(latest_tag)
        /\ docker_calls[Len(docker_calls)] = <<"push", latest_tag>>
        /\ registered = 1
        /\ Len(register_calls) = 1

\* the migration command failed: run() ended with SystemExit, the service
\* was not updated
C32_Witness ==
    /\ FailedAfterRegistering /\ raised = "SystemExit"
    /\ lastStatus = "STOPPED" /\ update_service_calls = 0
    /\ registered = 1 /\ NumPushes = 2

----------------------------------------------------------------------------
(* Properties of PyTestParallelCollector (SpecGather) *)

\* C33: gather partitions the collected files over the nodes: for the
\* node_total it is called with, every collected file, a file that is both
\* slow and fast included, is yielded on exactly one node_index of
\* 0..node_total-1 and once there, and nothing else is yielded; this node
\* runs what gather yields for its index
C33_GatherPartitionsTheFiles ==
    pc = "gathered" =>
       LET indexes == 0..(circle_node_total - 1)
           collected == {e.file : e \in tests_slow} \cup tests_fast
           yielded(n) == Gather(tests_slow, tests_fast, circle_node_total, n)
       IN /\ gathered = Some(yielded(circle_node_index))
          /\ \A f \in collected :
                Cardinality({n \in indexes : f \in Range(yielded(n))}) = 1
          /\ \A n \in indexes :
                /\ Range(yielded(n)) \subseteq collected
                /\ Len(yielded(n)) = Cardinality(Range(yielded(n)))

\* gather was called on the second of two nodes for a collection that has
\* a file both slow and fast, and a slow and a fast file besides
C33_Witness ==
    LET slow_files == {e.file : e \in tests_slow}
    IN /\ pc = "gathered" /\ circle_node_total = 2 /\ circle_node_index = 1
       /\ slow_files \cap tests_fast # {}
       /\ Cardinality(slow_files) = 2
       /\ Cardinality(tests_fast \ slow_files) = 1
       /\ gathered # Some(<<>>)

====
